---- MODULE Spec2Model ----
(***************************************************************************)
(* State-machine model of the URL-to-Telegram streaming relay              *)
(* (src/utils/FileUploadBot/utils.py, src/utils/FileUploadBot/FileUpload.py *)
(* and src/utils/constants.py).                                            *)
(*                                                                         *)
(* Every coroutine (handle_url with the download_with_progress it calls,   *)
(* and the cancel branch of handle_callback) is a task whose position `pc` *)
(* names the await it is suspended at.  One action runs the code from one  *)
(* await to the next, so tasks interleave exactly at suspension points.    *)
(* The two module-level collections of bot_instance (active_downloads and  *)
(* cancel_requests) are the shared state.  Handlers of different updates   *)
(* run as concurrent tasks of one event loop.                              *)
(***************************************************************************)
EXTENDS Integers, Sequences, FiniteSets, TLC

VARIABLES
    active_downloads,   \* keys of bot_instance.active_downloads
    cancel_requests,    \* bot_instance.cancel_requests
    now,                \* the value time.time() returns, in seconds
    pc,                 \* per handle_url task: the await it is suspended at
    user_id,            \* per handle_url task: update.effective_user.id
    url,                \* per handle_url task: update.message.text.strip()
    info,               \* per handle_url task: info['size'] of the probe result
    body,               \* per handle_url task: bytes of the response not yet delivered
    downloaded,         \* per handle_url task: local `downloaded`
    file_data,          \* per handle_url task: length of the BytesIO buffer
    last_update_time,   \* per handle_url task: local `last_update_time`
    outcome,            \* per handle_url task: the terminal state the session took
    hist,               \* per handle_url task: what the session has done so far
    cb,                 \* per handle_callback task: position, target and requester
    extract             \* a call of extract_filename_from_url: argument and value

vars == <<active_downloads, cancel_requests, now, pc, user_id, url, info, body,
          downloaded, file_data, last_update_time, outcome, hist, cb, extract>>

----------------------------------------------------------------------------
(* Bounds of the model *)

MaxChunks == 2       \* longest response body, in full chunks
MaxTime == 2         \* the clock stops advancing at this many seconds
MaxLen == 4          \* longest argument of extract_filename_from_url, in pieces

Users == {"u1", "u2"}
Tasks == {1, 2}       \* handle_url invocations
Callbacks == {1}      \* handle_callback invocations

\* Python's None where a declared size is expected (compares unequal to every size).
None == <<>>

\* The user of a handler that has not been invoked.
NoUser == "nobody"

----------------------------------------------------------------------------
(* Byte counts.  MAX_FILE_SIZE is 2^31, one more than the largest integer   *)
(* TLC represents, so a declared size is kept as two limbs <<hi, lo>> of    *)
(* value hi * 2^30 + lo (Python integers do not overflow).                  *)

Limb == 1024 * 1024 * 1024

Big(hi, lo) == <<hi, lo>>

ToBig(n) == <<n \div Limb, n % Limb>>

BigGt(a, b) == a[1] > b[1] \/ (a[1] = b[1] /\ a[2] > b[2])

MAX_FILE_SIZE == Big(2, 0)

CHUNK_SIZE == 8192

PROGRESS_INTERVAL == 2

\* Content-Length values a server may declare (absent: None).
ContentLengths ==
    { None, Big(0, 0), Big(0, CHUNK_SIZE), Big(1, Limb - 1), MAX_FILE_SIZE,
      Big(2, 1), Big(3, 0) }

\* Lengths of the response bodies the stream may deliver.
BodyLens == { 0, 1, CHUNK_SIZE, CHUNK_SIZE + 1808, MaxChunks * CHUNK_SIZE }

----------------------------------------------------------------------------
(* URL validation: re.match(r'https?://.+', url) on the stripped text.      *)

\* Texts of the messages a user may send.
Urls ==
    { <<"h","t","t","p",":","/","/","a">>,
      <<"h","t","t","p","s",":","/","/","a">>,
      <<" ","h","t","t","p",":","/","/","a"," ">>,
      <<"h","t","t","p",":","/","/">>,
      <<"h","t","t","p",":","/","/"," ">>,
      <<"f","t","p",":","/","/","a">>,
      <<"a"," ","h","t","t","p",":","/","/","a">>,
      <<>> }

Whitespace == {" ", "\t", "\n", "\r"}

RECURSIVE LStrip(_)
LStrip(s) == IF s # <<>> /\ Head(s) \in Whitespace THEN LStrip(Tail(s)) ELSE s

RECURSIVE RStrip(_)
RStrip(s) ==
    IF s # <<>> /\ s[Len(s)] \in Whitespace THEN RStrip(SubSeq(s, 1, Len(s) - 1)) ELSE s

\* utils.py:37: str.strip() removes the whitespace at both ends.
Strip(s) == RStrip(LStrip(s))

HasPrefix(s, p) == Len(s) >= Len(p) /\ SubSeq(s, 1, Len(p)) = p

\* Variant of ValidUrl: any scheme is taken.
ValidUrl_anyScheme(s) ==
    \E i \in 1..Len(s) : i > 1 /\ Len(s) > i + 2 /\ SubSeq(s, i, i + 2) = <<":","/","/">>

\* https?://.+  anchored at the start; `.` is any character but a newline.
ValidUrl(s) ==
    \E p \in { <<"h","t","t","p",":","/","/">>, <<"h","t","t","p","s",":","/","/">> } :
        /\ HasPrefix(s, p)
        /\ Len(s) > Len(p)
        /\ s[Len(p) + 1] # "\n"

----------------------------------------------------------------------------
(* Positions of a handle_url task: the await it is suspended at.            *)
(*   idle        not invoked yet                                            *)
(*   analyzing   utils.py:52   reply_text("Analyzing file...")              *)
(*   probe_head  FileUpload.py:88  client.head                              *)
(*   probe_range FileUpload.py:91  client.get with Range                    *)
(*   status      utils.py:77,85  edit_text with the cancel button, chat     *)
(*               action                                                     *)
(*   connect     utils.py:106  client.stream('GET', url)                    *)
(*   read        utils.py:121  next chunk of response.aiter_bytes           *)
(*   progress    utils.py:168  edit_text of a progress snapshot             *)
(*   cancel_msg  utils.py:125,135,175  edit_text(CANCEL_MESSAGE)            *)
(*   upload_msg  utils.py:180  edit_text("Uploading to Telegram...")        *)
(*   notify      the terminal state is decided; the task awaits the closing *)
(*               of the stream and the last message edit (utils.py:59, 67,  *)
(*               91, 94, 108) before it runs the finally block              *)
(*   done        handle_url has returned                                    *)

Probing == {"probe_head", "probe_range"}
Streaming == {"status", "connect", "read", "progress"}
Uploading == {"upload_msg"}
NonTerminal == Probing \cup Streaming \cup Uploading

NoHist ==
    [ admitted |-> FALSE,       \* line 53 has run
      held |-> FALSE,           \* ... and the entry it made has not been deleted since
      released |-> 0,           \* times the finally block has run
      cancel_accepted |-> FALSE,\* the owner's cancel was accepted while Streaming
      probe_ok |-> FALSE,       \* check_url_info returned a result
      requested |-> FALSE,      \* the streaming GET was issued
      opened |-> FALSE,         \* the streaming GET answered 200
      total |-> 0,              \* ... with a body of this length
      wrapped |-> FALSE,        \* the InputFile of line 183 was built
      input_file |-> 0,         \* ... from a buffer of this length
      accepting |-> FALSE,      \* the Uploader is willing to accept the file
      uploads |-> 0,            \* calls of context.bot.send_*
      attempt_ok |-> FALSE,     \* the probe that just returned got a success status
      snapshots |-> 0,          \* progress snapshots rendered (lines 141-168)
      snap_at |-> 0,            \* time of the latest one, or of the start (line 116)
      emit_failures |-> 0,      \* edits of the progress message that raised
      io_error |-> FALSE,       \* a chunk read or the upload call raised
      escaped |-> FALSE,        \* an exception left handle_url
      flag |-> "none" ]         \* the flag set by a cancel accepted during the
                                \* session: "pending", or "cleared" by its finally

\* The locals of a download die when handle_url returns.
Forget(h) ==
    [ NoHist EXCEPT !.admitted = h.admitted, !.held = h.held, !.released = h.released,
                    !.escaped = h.escaped, !.flag = h.flag ]

\* extract_filename_from_url has not been called.
NoCall == [pc |-> "idle", url |-> <<>>, filename |-> <<>>]

\* No handler has been invoked.
Idle ==
    /\ active_downloads = {}
    /\ cancel_requests = {}
    /\ pc = [t \in Tasks |-> "idle"]
    /\ user_id = [t \in Tasks |-> NoUser]
    /\ url = [t \in Tasks |-> <<>>]
    /\ info = [t \in Tasks |-> None]
    /\ body = [t \in Tasks |-> 0]
    /\ downloaded = [t \in Tasks |-> 0]
    /\ file_data = [t \in Tasks |-> 0]
    /\ last_update_time = [t \in Tasks |-> 0]
    /\ outcome = [t \in Tasks |-> "None"]
    /\ hist = [t \in Tasks |-> NoHist]
    /\ cb = [c \in Callbacks |-> [pc |-> "idle", target |-> NoUser, from |-> NoUser, result |-> "None"]]

Init ==
    /\ Idle
    /\ now = 0
    /\ extract = NoCall

Shared == <<active_downloads, cancel_requests>>
Locals == <<info, body, downloaded, file_data, last_update_time>>
Stream == <<body, downloaded, file_data, last_update_time>>

\* The flag of user u is discarded by task t: the pending flag of t becomes
\* v, a flag requested during another session of u is gone.
Discarded(h, u, t, v) ==
    [s \in Tasks |->
        IF user_id[s] = u /\ h[s].flag = "pending"
          THEN [h[s] EXCEPT !.flag = IF s = t THEN v ELSE "none"]
          ELSE h[s]]

\* A terminal state is decided: the task goes on to its last awaits.
Ends(t, state) ==
    /\ pc' = [pc EXCEPT ![t] = "notify"]
    /\ outcome' = [outcome EXCEPT ![t] = state]

\* Variant of AlreadyActive: the check consults the wrong collection.
AlreadyActive_wrongSet(u) == u \in cancel_requests

\* utils.py:47: the owner has an entry in the registry.
AlreadyActive(u) == u \in active_downloads

(* utils.py:35-52.  The text is validated, then the registry is consulted;  *)
(* an admissible submission suspends in reply_text before it registers.     *)
Submit(t, u, text) ==
    /\ pc[t] = "idle"
    /\ user_id' = [user_id EXCEPT ![t] = u]
    /\ url' = [url EXCEPT ![t] = Strip(text)]
    /\ IF ~ValidUrl(Strip(text))
         THEN /\ pc' = [pc EXCEPT ![t] = "done"]
              /\ outcome' = [outcome EXCEPT ![t] = "InvalidUrl"]
         ELSE IF AlreadyActive(u)
         THEN /\ pc' = [pc EXCEPT ![t] = "done"]
              /\ outcome' = [outcome EXCEPT ![t] = "AlreadyActive"]
         ELSE /\ pc' = [pc EXCEPT ![t] = "analyzing"]
              /\ UNCHANGED outcome
    /\ UNCHANGED <<Shared, now, Locals, hist, cb, extract>>

(* utils.py:52-57.  reply_text returns (or raises, outside the try block);  *)
(* the owner is registered and the probe's HEAD request is sent.            *)
Admit(t, sent) ==
    /\ pc[t] = "analyzing"
    /\ IF sent
         THEN /\ active_downloads' = active_downloads \cup {user_id[t]}
              /\ pc' = [pc EXCEPT ![t] = "probe_head"]
              /\ hist' = [hist EXCEPT ![t].admitted = TRUE, ![t].held = TRUE]
              /\ UNCHANGED outcome
         ELSE /\ pc' = [pc EXCEPT ![t] = "done"]
              /\ outcome' = [outcome EXCEPT ![t] = "Crashed"]
              /\ UNCHANGED <<active_downloads, hist>>
    /\ UNCHANGED <<cancel_requests, now, user_id, Locals, cb, url, extract>>

\* Variant of TooLarge: the limit itself is refused (>= for >).
TooLarge_inclusive(size) ==
    size # None /\ size # Big(0, 0) /\ ~BigGt(MAX_FILE_SIZE, size)

\* utils.py:66: info['size'] and info['size'] > MAX_FILE_SIZE.
TooLarge(size) == size # None /\ size # Big(0, 0) /\ BigGt(size, MAX_FILE_SIZE)

(* utils.py:58-82.  What handle_url does with the value of check_url_info.  *)
SizeCheck(t, size) ==
    /\ info' = [info EXCEPT ![t] = size]
    /\ IF TooLarge(size)
         THEN Ends(t, "Rejected")
         ELSE /\ pc' = [pc EXCEPT ![t] = "status"]
              /\ UNCHANGED outcome

\* Variant of ProbeFailed: the transfer goes on with size and type unknown.
ProbeFailed_proceed(t) ==
    /\ pc' = [pc EXCEPT ![t] = "status"]
    /\ UNCHANGED <<outcome, info, hist>>

\* utils.py:58-60: check_url_info returned None.
ProbeFailed(t) ==
    /\ Ends(t, "Failed")
    /\ UNCHANGED <<info, hist>>

ProbeResult(t, size, ok) ==
    /\ SizeCheck(t, size)
    /\ hist' = [hist EXCEPT ![t].probe_ok = TRUE, ![t].attempt_ok = ok]

(* FileUpload.py:84-91, 101-103.  The HEAD request answers 200, answers     *)
(* another status, or raises.                                               *)
ProbeHead(t, r, size) ==
    /\ pc[t] = "probe_head"
    /\ CASE r = "ok" -> ProbeResult(t, size, TRUE)
         [] r = "status" -> /\ pc' = [pc EXCEPT ![t] = "probe_range"]
                            /\ UNCHANGED <<outcome, info, hist>>
         [] r = "error" -> ProbeFailed(t)
    /\ UNCHANGED <<Shared, now, user_id, Stream, cb, url, extract>>

(* FileUpload.py:91-103.  The ranged GET answers with a success status,     *)
(* answers with another status, or raises; the status of an answer is not   *)
(* looked at.                                                               *)
ProbeRange(t, r, size) ==
    /\ pc[t] = "probe_range"
    /\ CASE r = "ok" -> ProbeResult(t, size, TRUE)
         [] r = "status" -> ProbeResult(t, size, FALSE)
         [] r = "error" -> ProbeFailed(t)
    /\ UNCHANGED <<Shared, now, user_id, Stream, cb, url, extract>>

(* utils.py:77-88, 105-106.  The status message with the cancel button and  *)
(* the chat action are sent; then the streaming GET is issued.              *)
Status(t, sent) ==
    /\ pc[t] = "status"
    /\ IF sent
         THEN /\ pc' = [pc EXCEPT ![t] = "connect"]
              /\ hist' = [hist EXCEPT ![t].requested = TRUE, ![t].attempt_ok = FALSE]
              /\ UNCHANGED outcome
         ELSE /\ Ends(t, "Failed")
              /\ hist' = [hist EXCEPT ![t].attempt_ok = FALSE]
    /\ UNCHANGED <<Shared, now, user_id, Locals, cb, url, extract>>

(* utils.py:106-115.  The response arrives: on status 200 the locals of the *)
(* transfer loop are initialised.                                           *)
Connect(t, r, n) ==
    /\ pc[t] = "connect"
    /\ IF r = "200"
         THEN /\ pc' = [pc EXCEPT ![t] = "read"]
              /\ body' = [body EXCEPT ![t] = n]
              /\ downloaded' = [downloaded EXCEPT ![t] = 0]
              /\ file_data' = [file_data EXCEPT ![t] = 0]
              /\ last_update_time' = [last_update_time EXCEPT ![t] = now]
              /\ hist' = [hist EXCEPT ![t].opened = TRUE, ![t].total = n,
                                      ![t].snap_at = now]
              /\ UNCHANGED outcome
         ELSE /\ Ends(t, "Failed")
              /\ UNCHANGED <<Stream, hist>>
    /\ UNCHANGED <<Shared, now, user_id, info, cb, url, extract>>

\* response.aiter_bytes(chunk_size=8192): full chunks, then the remainder.
NextChunk(remaining) == IF remaining < CHUNK_SIZE THEN remaining ELSE CHUNK_SIZE

\* Variant of Count: every chunk is counted as a full one.
Count_fullChunk(count, len) == count + CHUNK_SIZE

\* utils.py:130: downloaded += len(chunk).
Count(count, len) == count + len

\* Variant of ProgressDue: a snapshot is taken after one second.
ProgressDue_early(current_time, last, count, total_size) ==
    current_time - last >= PROGRESS_INTERVAL - 1 \/ ToBig(count) = total_size

\* utils.py:141, with total_size = info.get('size', 0).
ProgressDue(current_time, last, count, total_size) ==
    current_time - last >= PROGRESS_INTERVAL \/ ToBig(count) = total_size

\* utils.py:144: `total_size > 0` raises TypeError when total_size is None.
TotalKnown(total_size) ==
    IF total_size = None THEN "TypeError"
    ELSE IF BigGt(total_size, Big(0, 0)) THEN "True" ELSE "False"

\* The flag of the owner is seen: the session is cancelled and says so.
SeesCancel(t) ==
    /\ pc' = [pc EXCEPT ![t] = "cancel_msg"]
    /\ outcome' = [outcome EXCEPT ![t] = "Cancelled"]

(* utils.py:121-180.  The stream delivers its next chunk, ends, or raises.  *)
(* A chunk is appended between the two looks at the cancel flag; a due      *)
(* progress snapshot is then rendered and sent.  At the end of the stream   *)
(* the flag is looked at once more before the upload phase.                 *)
ReadChunk(t, r) ==
    /\ pc[t] = "read"
    /\ IF r = "error"
         THEN /\ Ends(t, "Failed")
              /\ hist' = [hist EXCEPT ![t].io_error = TRUE]
              /\ UNCHANGED Stream
         ELSE IF body[t] = 0
         THEN /\ IF user_id[t] \in cancel_requests
                   THEN SeesCancel(t)
                   ELSE /\ pc' = [pc EXCEPT ![t] = "upload_msg"]
                        /\ UNCHANGED outcome
              /\ UNCHANGED <<Stream, hist>>
         ELSE IF user_id[t] \in cancel_requests
         THEN /\ SeesCancel(t)
              /\ UNCHANGED <<Stream, hist>>
         ELSE LET len == NextChunk(body[t])
                  count == Count(downloaded[t], len)
                  due == ProgressDue(now, last_update_time[t], count, info[t])
              IN  /\ body' = [body EXCEPT ![t] = @ - len]
                  /\ file_data' = [file_data EXCEPT ![t] = @ + len]
                  /\ downloaded' = [downloaded EXCEPT ![t] = count]
                  /\ last_update_time' =
                        [last_update_time EXCEPT ![t] = IF due THEN now ELSE @]
                  /\ IF ~due
                       THEN UNCHANGED <<pc, outcome, hist>>
                       ELSE IF TotalKnown(info[t]) = "TypeError"
                       THEN /\ Ends(t, "Failed")
                            /\ UNCHANGED hist
                       ELSE /\ pc' = [pc EXCEPT ![t] = "progress"]
                            /\ hist' = [hist EXCEPT ![t].snapshots = @ + 1,
                                                    ![t].snap_at = now]
                            /\ UNCHANGED outcome
    /\ UNCHANGED <<Shared, now, user_id, info, cb, url, extract>>

\* Variant of Progress: an edit that raises ends the transfer.
Progress_abort(t, sent) ==
    /\ pc[t] = "progress"
    /\ IF sent THEN pc' = [pc EXCEPT ![t] = "read"] /\ UNCHANGED outcome
               ELSE Ends(t, "Failed")
    /\ hist' = [hist EXCEPT ![t].emit_failures = IF sent THEN @ ELSE @ + 1]
    /\ UNCHANGED <<Shared, now, user_id, Locals, cb, url, extract>>

(* utils.py:167-171.  The edit of the progress message returns or raises;   *)
(* either way the loop goes on to the next chunk.                           *)
Progress(t, sent) ==
    /\ pc[t] = "progress"
    /\ pc' = [pc EXCEPT ![t] = "read"]
    /\ hist' = [hist EXCEPT ![t].emit_failures = IF sent THEN @ ELSE @ + 1]
    /\ UNCHANGED <<Shared, now, user_id, Locals, outcome, cb, url, extract>>

(* utils.py:125-127, 135-137, 175-177.  After the cancel message is sent    *)
(* the flag is discarded and download_with_progress returns; if sending     *)
(* raises, the discard is skipped and the exception goes to handle_url.     *)
CancelMsg(t, sent) ==
    /\ pc[t] = "cancel_msg"
    /\ cancel_requests' =
          IF sent THEN cancel_requests \ {user_id[t]} ELSE cancel_requests
    /\ pc' = [pc EXCEPT ![t] = "notify"]
    /\ hist' = IF sent THEN Discarded(hist, user_id[t], t, "none") ELSE hist
    /\ UNCHANGED <<active_downloads, now, user_id, Locals, outcome, cb, url, extract>>

\* utils.py:1-22 import no name `datetime`, which line 186 uses.
DatetimeDefined == FALSE

(* utils.py:180-227.  After the "Uploading" message the buffer is wrapped   *)
(* in an InputFile and the caption is built: datetime.now() raises          *)
(* NameError, which handle_url reports as a failed upload.  Were the name   *)
(* defined, send_photo/video/audio/document would be called with the        *)
(* InputFile and its result would decide between Completed and Failed.      *)
UploadMsg(t, sent, accepted) ==
    /\ pc[t] = "upload_msg"
    /\ IF ~sent
         THEN /\ Ends(t, "Failed")
              /\ UNCHANGED hist
         ELSE IF ~DatetimeDefined
         THEN /\ Ends(t, "Failed")
              /\ hist' = [hist EXCEPT ![t].wrapped = TRUE,
                                      ![t].input_file = file_data[t],
                                      ![t].accepting = accepted]
         ELSE /\ Ends(t, IF accepted THEN "Completed" ELSE "Failed")
              /\ hist' = [hist EXCEPT ![t].wrapped = TRUE,
                                      ![t].input_file = file_data[t],
                                      ![t].accepting = accepted,
                                      ![t].uploads = @ + 1,
                                      ![t].io_error = ~accepted]
    /\ UNCHANGED <<Shared, now, user_id, Locals, cb, url, extract>>

\* Variant of Release: the finally block leaves the cancel flag.
Release_entryOnly(u) ==
    /\ active_downloads' = active_downloads \ {u}
    /\ cancel_requests' = cancel_requests

\* Variant of Release: the finally block forgets the registry entry.
Release_flagOnly(u) ==
    /\ active_downloads' = active_downloads
    /\ cancel_requests' = cancel_requests \ {u}

\* utils.py:96-101, the finally block of handle_url.
Release(u) ==
    /\ active_downloads' = active_downloads \ {u}
    /\ cancel_requests' = cancel_requests \ {u}

\* The entry of user u is deleted: no session of u holds one any more.
Dropped(h, u) ==
    [t \in Tasks |-> IF user_id[t] = u THEN [h[t] EXCEPT !.held = FALSE] ELSE h[t]]

(* utils.py:89-101.  The last awaits of a terminal path return, or the     *)
(* edit_text of an except clause (lines 91, 94) raises; the finally block   *)
(* runs and handle_url returns, or the exception leaves it.                 *)
Finally(t, raised) ==
    /\ pc[t] = "notify"
    /\ Release(user_id[t])
    /\ pc' = [pc EXCEPT ![t] = "done"]
    /\ LET h == Dropped([hist EXCEPT ![t] = Forget([@ EXCEPT !.released = @ + 1,
                                                             !.escaped = raised])],
                        user_id[t])
       IN  hist' = IF user_id[t] \in cancel_requests'
                     THEN h ELSE Discarded(h, user_id[t], t, "cleared")
    /\ info' = [info EXCEPT ![t] = None]
    /\ body' = [body EXCEPT ![t] = 0]
    /\ downloaded' = [downloaded EXCEPT ![t] = 0]
    /\ file_data' = [file_data EXCEPT ![t] = 0]
    /\ last_update_time' = [last_update_time EXCEPT ![t] = 0]
    /\ UNCHANGED <<now, user_id, outcome, cb, url, extract>>

\* time.time() moves on.
Tick ==
    /\ now < MaxTime
    /\ now' = now + 1
    /\ UNCHANGED <<Shared, pc, user_id, Locals, outcome, hist, cb, url, extract>>

----------------------------------------------------------------------------
(* handle_callback with data "cancel:<target>" pressed by user `from`.      *)
(*   idle      not invoked yet                                              *)
(*   answer    utils.py:265       query.answer()                            *)
(*   feedback  utils.py:307, 314  edit_message_text, query.answer           *)
(*   done      handle_callback has returned; `result` says how              *)

UrlTasks == <<pc, user_id, url, Locals, outcome>>

\* utils.py:262-265.
CbStart(c, target, from) ==
    /\ cb[c].pc = "idle"
    /\ cb' = [cb EXCEPT ![c] = [pc |-> "answer", target |-> target, from |-> from,
                                result |-> "None"]]
    /\ UNCHANGED <<Shared, now, UrlTasks, hist, extract>>

\* Variant of Authorized: the requester is not compared with the target.
Authorized_anyone(from, target) == from \in Users /\ target \in Users

\* utils.py:301: a user may cancel only their own download.
Authorized(from, target) == from = target

(* utils.py:296-304, 320-321.  The requester is compared with the target;   *)
(* the owner's flag is added before the feedback is sent.                   *)
CbCancel(c, answered) ==
    /\ cb[c].pc = "answer"
    /\ IF ~answered
         THEN /\ cb' = [cb EXCEPT ![c].pc = "done", ![c].result = "error"]
              /\ UNCHANGED <<cancel_requests, hist>>
         ELSE IF Authorized(cb[c].from, cb[c].target)
         THEN /\ cancel_requests' = cancel_requests \cup {cb[c].target}
              /\ cb' = [cb EXCEPT ![c].pc = "feedback", ![c].result = "accepted"]
              /\ hist' = [t \in Tasks |->
                            IF user_id[t] = cb[c].target /\ pc[t] \in NonTerminal
                              THEN [hist[t] EXCEPT
                                      !.cancel_accepted = @ \/ pc[t] \in Streaming,
                                      !.flag = "pending"]
                              ELSE hist[t]]
         ELSE /\ cb' = [cb EXCEPT ![c].pc = "done", ![c].result = "unauthorized"]
              /\ UNCHANGED <<cancel_requests, hist>>
    /\ UNCHANGED <<active_downloads, now, UrlTasks, extract>>

(* utils.py:307-319.  Once the feedback is sent the owner's entry is        *)
(* removed from active_downloads; if sending raises, it is not.             *)
CbCleanup(c, sent) ==
    /\ cb[c].pc = "feedback"
    /\ active_downloads' =
          IF sent THEN active_downloads \ {cb[c].target} ELSE active_downloads
    /\ hist' = IF sent THEN Dropped(hist, cb[c].target) ELSE hist
    /\ cb' = [cb EXCEPT ![c].pc = "done"]
    /\ UNCHANGED <<cancel_requests, now, UrlTasks, extract>>

----------------------------------------------------------------------------

(* One step of some task, for the tasks, callbacks, message texts and      *)
(* server answers given.                                                    *)
Step(T, C, urls, sizes, lens) ==
    \/ \E t \in T, u \in Users, text \in urls : Submit(t, u, text)
    \/ \E t \in T, sent \in BOOLEAN : Admit(t, sent)
    \/ \E t \in T, r \in {"ok", "status", "error"}, size \in sizes :
          ProbeHead(t, r, size)
    \/ \E t \in T, r \in {"ok", "status", "error"}, size \in sizes :
          ProbeRange(t, r, size)
    \/ \E t \in T, sent \in BOOLEAN : Status(t, sent)
    \/ \E t \in T, r \in {"200", "status", "error"}, n \in lens :
          Connect(t, r, n)
    \/ \E t \in T, r \in {"data", "error"} : ReadChunk(t, r)
    \/ \E t \in T, sent \in BOOLEAN : Progress(t, sent)
    \/ \E t \in T, sent \in BOOLEAN : CancelMsg(t, sent)
    \/ \E t \in T, sent \in BOOLEAN, accepted \in BOOLEAN :
          UploadMsg(t, sent, accepted)
    \/ \E t \in T, raised \in BOOLEAN : Finally(t, raised)
    \/ \E c \in C, target \in Users, from \in Users : CbStart(c, target, from)
    \/ \E c \in C, answered \in BOOLEAN : CbCancel(c, answered)
    \/ \E c \in C, sent \in BOOLEAN : CbCleanup(c, sent)

(* Spec: concurrent submissions and cancel requests of two users.  The      *)
(* server answers are the few that give every path of a session; the clock  *)
(* stands still, so a snapshot is due only when the declared size is        *)
(* reached (SpecSession has the clock).                                     *)
RaceSizes == { None, Big(0, CHUNK_SIZE), Big(3, 0) }
RaceLens == { 0, MaxChunks * CHUNK_SIZE }
RaceUrls ==
    { <<"h","t","t","p",":","/","/","a">>,
      <<" ","h","t","t","p",":","/","/","a"," ">>,
      <<"f","t","p",":","/","/","a">> }

Next == Step(Tasks, Callbacks, RaceUrls, RaceSizes, RaceLens)

Spec == Init /\ [][Next]_vars

----------------------------------------------------------------------------
(* extract_filename_from_url (FileUpload.py:33-59) on character sequences.  *)

\* s.find(p, i): the first position from i on where p occurs in s, else 0.
RECURSIVE Find(_, _, _)
Find(s, p, i) ==
    IF i + Len(p) - 1 > Len(s) THEN 0
    ELSE IF SubSeq(s, i, i + Len(p) - 1) = p THEN i
    ELSE Find(s, p, i + 1)

\* p in s
Contains(s, p) == Find(s, p, 1) # 0

\* The first position from i on that holds one of chars, else Len(s) + 1.
FirstOf(s, chars, i) ==
    LET I == { k \in i..Len(s) : s[k] \in chars }
    IN  IF I = {} THEN Len(s) + 1 ELSE CHOOSE k \in I : \A j \in I : k <= j

Alpha == {"a", "b", "e", "f", "h", "i", "l", "m", "n", "p", "t", "E"}
SchemeChars == Alpha \cup {"2", "+", "-", "."}

(* urllib.parse.urlparse, for texts without `#`, `;`, brackets, control     *)
(* characters and spaces: a scheme is split off at the first `:` when only  *)
(* scheme characters precede it, a netloc after a leading `//` runs to the  *)
(* next `/` or `?`, and the query starts after the first `?`.               *)
UrlParse(u) ==
    LET c == Find(u, <<":">>, 1)
        scheme == /\ c > 1
                  /\ u[1] \in Alpha
                  /\ \A k \in 1..(c - 1) : u[k] \in SchemeChars
        rest == IF scheme THEN SubSeq(u, c + 1, Len(u)) ELSE u
        netloc == HasPrefix(rest, <<"/","/">>)
        d == IF netloc THEN FirstOf(rest, {"/", "?"}, 3) ELSE 1
        tail == SubSeq(rest, d, Len(rest))
        q == Find(tail, <<"?">>, 1)
    IN  [ path |-> IF q = 0 THEN tail ELSE SubSeq(tail, 1, q - 1),
          query |-> IF q = 0 THEN <<>> ELSE SubSeq(tail, q + 1, Len(tail)) ]

\* Percent escapes of the characters the function looks for.
Escapes ==
    { <<"2","E",".">>, <<"2","e",".">>, <<"2","F","/">>, <<"2","f","/">>,
      <<"3","D","=">>, <<"3","d","=">>, <<"2","6","&">>, <<"3","F","?">>,
      <<"3","f","?">> }

(* urllib.parse.unquote: %XX becomes the character it encodes; a `%` that   *)
(* no two hexadecimal digits follow stays.  (The texts of the model hold no *)
(* escape outside Escapes.)                                                 *)
RECURSIVE Unquote(_)
Unquote(s) ==
    IF s = <<>> THEN <<>>
    ELSE IF s[1] = "%" /\ Len(s) >= 3 /\ \E e \in Escapes : e[1] = s[2] /\ e[2] = s[3]
    THEN <<(CHOOSE e \in Escapes : e[1] = s[2] /\ e[2] = s[3])[3]>>
            \o Unquote(SubSeq(s, 4, Len(s)))
    ELSE <<s[1]>> \o Unquote(Tail(s))

\* path.split('/')[-1]
LastSegment(path) ==
    LET I == { k \in 1..Len(path) : path[k] = "/" }
    IN  IF I = {} THEN path
        ELSE SubSeq(path, (CHOOSE k \in I : \A j \in I : k >= j) + 1, Len(path))

\* s.split(sep)[1]: what lies between the first and the second sep;
\* IndexError when sep does not occur.
SplitSecond(s, sep) ==
    LET i == Find(s, sep, 1)
        rest == SubSeq(s, i + Len(sep), Len(s))
        j == Find(rest, sep, 1)
    IN  IF i = 0 THEN [raised |-> TRUE, value |-> <<>>]
        ELSE [raised |-> FALSE,
              value |-> IF j = 0 THEN rest ELSE SubSeq(rest, 1, j - 1)]

\* s.split('&')[0]
SplitFirst(s) == SubSeq(s, 1, FirstOf(s, {"&"}, 1) - 1)

Params ==
    << <<"f","i","l","e","n","a","m","e">>, <<"f","i","l","e">>, <<"n","a","m","e">> >>

\* if not filename or '.' not in filename
NoName(filename) == filename = <<>> \/ ~Contains(filename, <<".">>)

DigitChars == <<"0", "1", "2", "3", "4", "5", "6", "7", "8", "9">>

\* str(n) of a natural number
RECURSIVE Decimal(_)
Decimal(n) ==
    IF n < 10 THEN <<DigitChars[n + 1]>>
    ELSE Decimal(n \div 10) \o <<DigitChars[(n % 10) + 1]>>

\* f"file_{int(time.time())}"
Generated(ts) == <<"f","i","l","e","_">> \o Decimal(ts)

(* FileUpload.py:35-57, the body of the try block: the last path segment,   *)
(* else the value of the first of filename, file, name that occurs in the   *)
(* query (`param in query_params` is a substring test), else a generated    *)
(* name.  `raised` tells that the IndexError of line 48 went up.            *)
TryExtract(u, ts) ==
    LET parsed == UrlParse(u)
        filename == LastSegment(Unquote(parsed.path))
        I == { k \in 1..Len(Params) : Contains(parsed.query, Params[k]) }
        param == Params[CHOOSE k \in I : \A j \in I : k <= j]
        part == SplitSecond(parsed.query, param \o <<"=">>)
        named == IF NoName(filename) /\ I # {}
                   THEN Unquote(SplitFirst(part.value)) ELSE filename
    IN  IF NoName(filename) /\ I # {} /\ part.raised
          THEN [raised |-> TRUE, filename |-> <<>>]
          ELSE [raised |-> FALSE,
                filename |-> IF NoName(named) THEN Generated(ts) ELSE named]

\* Variant of ExtractFilename: no except clause around the body.
ExtractFilename_uncaught(u, ts) == TryExtract(u, ts)

\* FileUpload.py:34, 58-59: whatever the body raises, a generated name is returned.
ExtractFilename(u, ts) ==
    LET r == TryExtract(u, ts)
    IN  IF r.raised THEN [raised |-> FALSE, filename |-> Generated(ts)] ELSE r

\* The pieces the arguments are put together from.
Pieces ==
    { <<"h","t","t","p",":","/","/","h">>, <<"/">>, <<"?">>, <<"=">>, <<"&">>,
      <<"a",".","b">>, <<"f","i","l","e">>, <<"n","a","m","e">>, <<"%","2","E">> }

RECURSIVE Join(_)
Join(ps) == IF ps = <<>> THEN <<>> ELSE Head(ps) \o Join(Tail(ps))

Arguments == { Join(ps) : ps \in UNION { [1..n -> Pieces] : n \in 0..MaxLen } }

(* extract_filename_from_url(url) returns or raises. *)
Extract ==
    /\ extract.pc = "called"
    /\ LET r == ExtractFilename(extract.url, now)
       IN  extract' = [extract EXCEPT !.pc = IF r.raised THEN "raised" ELSE "returned",
                                      !.filename = r.filename]
    /\ UNCHANGED <<Shared, now, UrlTasks, hist, cb>>

(* SpecFilename: extract_filename_from_url is called with every argument of *)
(* Arguments at every time of the clock; no session runs.                   *)
InitFilename ==
    /\ Idle
    /\ now \in 0..MaxTime
    /\ extract \in { [pc |-> "called", url |-> u, filename |-> <<>>] : u \in Arguments }

NextFilename == Extract

SpecFilename == InitFilename /\ [][NextFilename]_vars

(* SpecSession: one session and the cancel requests aimed at it, with every *)
(* declared size, every body length and the clock.                          *)
NextSession == Step({1}, Callbacks, Urls, ContentLengths, BodyLens) \/ Tick

SpecSession == Init /\ [][NextSession]_vars

----------------------------------------------------------------------------
(* Properties *)

\* The sessions of user u that are in a non-terminal state.
ActiveSessions(u) == { t \in Tasks : user_id[t] = u /\ pc[t] \in NonTerminal }

\* Some session admitted for u still has its registry entry (is unreleased).
Held(u) == \E s \in Tasks : user_id[s] = u /\ hist[s].held

\* Task t takes the step that decides its submission (utils.py:37-52).
Submits(t) == pc[t] = "idle" /\ pc'[t] # "idle"

\* Callback c takes the step that decides its cancel request (utils.py:296-321).
Decides(c) == cb[c].pc = "answer" /\ cb'[c].pc # "answer"

OthersUnchanged(t) ==
    \A s \in Tasks \ {t} :
        /\ pc'[s] = pc[s] /\ user_id'[s] = user_id[s] /\ outcome'[s] = outcome[s]
        /\ info'[s] = info[s] /\ body'[s] = body[s] /\ downloaded'[s] = downloaded[s]
        /\ file_data'[s] = file_data[s] /\ hist'[s] = hist[s]

(* C1: in every reachable state each owner has at most one transfer session *)
(* in a non-terminal state (Probing, SizeCheck, Streaming or Uploading).    *)
C1_OneSessionPerOwner ==
    \A u \in Users : Cardinality(ActiveSessions(u)) <= 1

(* C2: a submission of an owner made while an earlier admitted session of   *)
(* that owner is unreleased (its registry entry has not been deleted) is    *)
(* rejected as already active and changes nothing: registry, cancel flags   *)
(* and every other session stay as they were.  A submission made when no    *)
(* admitted session of the owner is unreleased passes the check, and its    *)
(* next step registers the owner unless the status message cannot be sent.  *)
C2_Step ==
    \A t \in Tasks :
        /\ (Submits(t) /\ outcome'[t] # "InvalidUrl") =>
              IF Held(user_id'[t])
                THEN /\ pc'[t] = "done"
                     /\ outcome'[t] = "AlreadyActive"
                     /\ UNCHANGED <<active_downloads, cancel_requests, hist, cb>>
                     /\ OthersUnchanged(t)
                ELSE pc'[t] = "analyzing"
        /\ (pc[t] = "analyzing" /\ pc'[t] # "analyzing") =>
              \/ pc'[t] = "probe_head" /\ user_id[t] \in active_downloads'
                                       /\ hist'[t].held
              \/ pc'[t] = "done" /\ outcome'[t] = "Crashed"

C2_RejectWhileUnreleased == [][C2_Step]_vars

\* C2's case: a submission was rejected while a session of its owner runs.
C2_Witness ==
    \E t, s \in Tasks :
        /\ t # s /\ user_id[s] = user_id[t]
        /\ outcome[t] = "AlreadyActive"
        /\ hist[s].held /\ pc[s] \in Streaming

(* C3: admission is an atomic check-and-insert: of two concurrent           *)
(* submissions of one owner at most one is admitted, so no two sessions of  *)
(* an owner are admitted and unreleased at the same time.                   *)
C3_AtomicAdmission ==
    \A t, s \in Tasks :
        (t # s /\ user_id[t] = user_id[s]) => ~(hist[t].held /\ hist[s].held)

(* C4: a session whose owner's cancel request was accepted while it was     *)
(* Streaming never enters Uploading, never has its buffer wrapped for the   *)
(* Uploader and never has the Uploader invoked, whatever is interleaved.    *)
C4_CancelledNeverUploads ==
    \A t \in Tasks :
        hist[t].cancel_accepted =>
            /\ pc[t] \notin Uploading
            /\ ~hist[t].wrapped
            /\ hist[t].uploads = 0

(* C5: a cancel request whose requester differs from the targeted owner is  *)
(* denied and changes nothing: no cancel flag is set, no registry entry is  *)
(* removed and every session is left as it was.                             *)
C5_Step ==
    \A c \in Callbacks :
        (Decides(c) /\ cb[c].from # cb[c].target) =>
            /\ cb'[c].pc = "done"
            /\ cb'[c].result \in {"unauthorized", "error"}
            /\ UNCHANGED <<active_downloads, cancel_requests, now, pc, user_id,
                           Locals, outcome, hist>>

C5_UnauthorizedCancelDenied == [][C5_Step]_vars

\* C5's case: a stranger's request was denied while the owner's session streams.
C5_Witness ==
    \E c \in Callbacks, t \in Tasks :
        /\ cb[c].result = "unauthorized"
        /\ user_id[t] = cb[c].target
        /\ pc[t] \in Streaming
        /\ cb[c].target \in active_downloads
        /\ cb[c].target \notin cancel_requests

\* User u has a session: a registry entry or a task in a non-terminal state.
HasSession(u) == u \in active_downloads \/ ActiveSessions(u) # {}

(* C6: a cancel request by an owner who has no active session is denied and *)
(* sets no cancellation flag.                                               *)
C6_Step ==
    \A c \in Callbacks :
        (Decides(c) /\ cb[c].from = cb[c].target /\ ~HasSession(cb[c].target)) =>
            /\ cb'[c].result # "accepted"
            /\ cancel_requests' = cancel_requests

C6_NoSessionNoFlag == [][C6_Step]_vars

(* C7: every admitted session runs the release of its owner's registry      *)
(* entry exactly once, on whichever terminal path it takes, and when the    *)
(* session has become terminal the owner is absent from the registry.       *)
C7_Count ==
    \A t \in Tasks :
        hist[t].released = IF hist[t].admitted /\ pc[t] = "done" THEN 1 ELSE 0

C7_Step ==
    \A t \in Tasks :
        (hist[t].admitted /\ pc[t] # "done" /\ pc'[t] = "done") =>
            /\ outcome[t] \in {"Completed", "Cancelled", "Rejected", "Failed"}
            /\ hist'[t].released = hist[t].released + 1
            /\ user_id[t] \notin active_downloads'

C7_ReleasedExactlyOnce == []C7_Count /\ [][C7_Step]_vars

\* C7's case: a cancelled session has returned and was released once.
C7_Witness ==
    \E t \in Tasks :
        /\ pc[t] = "done" /\ outcome[t] = "Cancelled"
        /\ hist[t].released = 1
        /\ user_id[t] \notin active_downloads

\* The declared size exceeds the maximum transfer size.
Exceeds(size) == size # None /\ BigGt(size, MAX_FILE_SIZE)

(* C8: after a successful probe the session proceeds to Streaming exactly   *)
(* when the declared size is unknown or at most the maximum transfer size   *)
(* (the limit itself is accepted); a larger declared size ends the session  *)
(* in Rejected with no request for the body, no chunk and no Uploader call. *)
C8_State ==
    \A t \in Tasks :
        (hist[t].probe_ok /\ pc[t] # "done") =>
            /\ (outcome[t] = "Rejected") <=> Exceeds(info[t])
            /\ Exceeds(info[t]) =>
                  /\ pc[t] = "notify"
                  /\ ~hist[t].requested /\ ~hist[t].opened
                  /\ downloaded[t] = 0 /\ file_data[t] = 0
                  /\ ~hist[t].wrapped /\ hist[t].uploads = 0

C8_Step ==
    \A t \in Tasks :
        (pc[t] \in Probing /\ hist'[t].probe_ok) =>
            (pc'[t] = "status") <=> ~Exceeds(info'[t])

C8_SizeCheck == []C8_State /\ [][C8_Step]_vars

\* C8's case: a body whose declared size equals the limit is being streamed.
C8_Witness ==
    \E t \in Tasks :
        pc[t] = "read" /\ info[t] = MAX_FILE_SIZE /\ downloaded[t] > 0

(* C9: for a body of total length N, bytes_transferred never decreases      *)
(* while streaming, counts exactly the bytes delivered so far, and at the   *)
(* end of the stream equals N, as does the length of the buffer wrapped for *)
(* the Uploader; N need not be a multiple of the chunk size nor equal the   *)
(* declared size.                                                           *)
C9_State ==
    \A t \in Tasks :
        hist[t].opened =>
            /\ downloaded[t] + body[t] = hist[t].total
            /\ file_data[t] = downloaded[t]
            /\ pc[t] = "upload_msg" => downloaded[t] = hist[t].total
            /\ hist[t].wrapped =>
                  /\ hist[t].input_file = hist[t].total
                  /\ downloaded[t] = hist[t].total

C9_Step ==
    \A t \in Tasks :
        (hist[t].opened /\ hist'[t].opened) =>
            downloaded'[t] >= downloaded[t]

C9_ExactCount == []C9_State /\ [][C9_Step]_vars

\* C9's case: a body of one full chunk and a remainder, declared as one chunk,
\* was read to its end and wrapped for the Uploader.
C9_Witness ==
    \E t \in Tasks :
        /\ hist[t].wrapped
        /\ hist[t].input_file = CHUNK_SIZE + 1808
        /\ info[t] = Big(0, CHUNK_SIZE)

(* C10: a session whose probe succeeded, whose size check passed, whose     *)
(* stream was read to the end with no cancellation and whose Uploader       *)
(* accepts the file ends in Completed.                                      *)
C10_CompletesWhenAccepted ==
    \A t \in Tasks :
        (pc[t] = "notify" /\ hist[t].wrapped /\ hist[t].accepting) =>
            outcome[t] = "Completed"

(* C11: a progress emission that fails (the edit of the progress message    *)
(* raises) never aborts the transfer: the session stays in Streaming, its   *)
(* buffer and its byte count are as they were, no terminal state is taken   *)
(* and the loop goes on to read the next chunk.                             *)
C11_Step ==
    \A t \in Tasks :
        hist'[t].emit_failures > hist[t].emit_failures =>
            /\ pc[t] = "progress"
            /\ pc'[t] = "read"
            /\ pc'[t] \in Streaming
            /\ outcome'[t] = outcome[t]
            /\ file_data'[t] = file_data[t]
            /\ downloaded'[t] = downloaded[t]
            /\ body'[t] = body[t]

C11_EmissionFailureSwallowed == [][C11_Step]_vars

\* After a failed emission the transfer went on to the end of the stream.
C11_Witness ==
    \E t \in Tasks :
        /\ hist[t].emit_failures > 0
        /\ pc[t] = "upload_msg"
        /\ hist[t].snapshots = 1
        /\ file_data[t] = hist[t].total
        /\ file_data[t] = MaxChunks * CHUNK_SIZE

(* C12: an error raised by a chunk read or by the upload call is caught at  *)
(* the session boundary: the session ends in Failed, the fetch is not       *)
(* retried (the session streams no more), the Uploader is not invoked after *)
(* a streaming error, and no exception leaves handle_url.                   *)
C12_State ==
    \A t \in Tasks :
        hist[t].io_error =>
            /\ pc[t] = "notify"
            /\ outcome[t] = "Failed"
            /\ ~hist[t].wrapped => hist[t].uploads = 0

C12_Step ==
    \A t \in Tasks :
        (hist[t].io_error /\ pc'[t] # pc[t]) =>
            /\ pc'[t] = "done"
            /\ outcome'[t] = "Failed"
            /\ ~hist'[t].escaped

C12_ErrorsCaught == []C12_State /\ [][C12_Step]_vars

(* C13: the probe sends the body-less request first and, only when that is  *)
(* rejected, exactly one ranged request; it returns a result only when one  *)
(* of its requests got a success status, and fails when both ended in an    *)
(* error, a timeout or a non-success status.                                *)
C13_Step ==
    \A t \in Tasks :
        /\ (pc[t] \notin Probing /\ pc'[t] \in Probing) => pc'[t] = "probe_head"
        /\ (pc[t] = "probe_head" /\ pc'[t] # pc[t]) =>
               \/ pc'[t] = "probe_range" /\ ~hist'[t].probe_ok
               \/ pc'[t] \notin Probing
        /\ (pc[t] = "probe_range" /\ pc'[t] # pc[t]) => pc'[t] \notin Probing
        /\ (hist'[t].probe_ok /\ ~hist[t].probe_ok) => hist'[t].attempt_ok

C13_ProbeResultOnlyOnSuccess == [][C13_Step]_vars

\* The text is http:// or https:// followed by at least one character.
MatchesPattern(s) ==
    \/ Len(s) > 7 /\ SubSeq(s, 1, 7) = <<"h","t","t","p",":","/","/">> /\ s[8] # "\n"
    \/ Len(s) > 8 /\ SubSeq(s, 1, 8) = <<"h","t","t","p","s",":","/","/">> /\ s[9] # "\n"

(* C14: a submission whose URL does not match the http(s):// pattern is     *)
(* rejected before any I/O: no probe and no fetch is issued, and the        *)
(* registry, the cancel flags and every other session are left as they      *)
(* were (a session the owner already has is not released).                  *)
C14_State ==
    \A t \in Tasks :
        (pc[t] # "idle" /\ ~MatchesPattern(url[t])) =>
            /\ pc[t] = "done"
            /\ outcome[t] = "InvalidUrl"
            /\ hist[t] = NoHist

C14_Step ==
    \A t \in Tasks :
        (Submits(t) /\ ~MatchesPattern(url'[t])) =>
            /\ UNCHANGED <<active_downloads, cancel_requests, hist, cb>>
            /\ OthersUnchanged(t)
            /\ info'[t] = info[t] /\ body'[t] = body[t] /\ file_data'[t] = file_data[t]

C14_InvalidUrlRejected == []C14_State /\ [][C14_Step]_vars

\* A text that is no URL was rejected while its sender has a session streaming.
C14_Witness ==
    \E t, s \in Tasks :
        /\ outcome[t] = "InvalidUrl" /\ ~MatchesPattern(url[t])
        /\ user_id[s] = user_id[t]
        /\ pc[s] = "read" /\ hist[s].held
        /\ user_id[s] \in active_downloads

(* C15: extract_filename_from_url is total: for every argument (empty, a    *)
(* path without extension, a query only, a query that names filename, file  *)
(* or name without a value) it returns a filename that is not empty, and    *)
(* it never raises.                                                         *)
C15_FilenameTotal ==
    /\ extract.pc # "raised"
    /\ extract.pc = "returned" => extract.filename # <<>>

\* The call returned the generated name for a query that names `file` without a value.
C15_Witness ==
    /\ extract.pc = "returned"
    /\ extract.url = <<"?","f","i","l","e">>
    /\ extract.filename = Generated(now)

(* C16: the registry entry of a session is removed only when the session    *)
(* reaches a terminal state: while it is in Probing, SizeCheck, Streaming   *)
(* or Uploading its owner is in the registry, also after a cancel request   *)
(* was accepted that the transfer loop has not seen yet.                    *)
C16_RegisteredUntilTerminal ==
    \A t \in Tasks : pc[t] \in NonTerminal => user_id[t] \in active_downloads

(* C17: when the declared size is absent and a snapshot is due after a      *)
(* chunk was appended, the snapshot with the unknown total is emitted and   *)
(* streaming goes on: an unknown size by itself never ends the session in   *)
(* Failed.                                                                  *)
C17_Step ==
    \A t \in Tasks :
        ( /\ pc[t] = "read"
          /\ info[t] = None
          /\ file_data'[t] > file_data[t]
          /\ now - last_update_time[t] >= PROGRESS_INTERVAL ) =>
            /\ pc'[t] = "progress"
            /\ outcome'[t] = outcome[t]
            /\ hist'[t].snapshots = hist[t].snapshots + 1

C17_UnknownSizeSnapshot == [][C17_Step]_vars

(* C18: progress snapshots are throttled: when a snapshot is taken, at      *)
(* least 2 seconds have passed since the previous snapshot (since the start *)
(* of streaming for the first one), unless it is the snapshot taken when    *)
(* the byte count equals the declared size.                                 *)
C18_State ==
    \A t \in Tasks : hist[t].snap_at <= now /\ hist[t].snapshots <= MaxChunks

C18_Step ==
    \A t \in Tasks :
        /\ hist'[t].snapshots > hist[t].snapshots =>
              /\ hist'[t].snapshots = hist[t].snapshots + 1
              /\ hist'[t].snap_at = now
              /\ \/ now - hist[t].snap_at >= 2
                 \/ ToBig(downloaded'[t]) = info[t]
        /\ (hist[t].opened /\ hist'[t].opened /\ hist'[t].snap_at # hist[t].snap_at) =>
              hist'[t].snapshots > hist[t].snapshots

C18_SnapshotsThrottled == []C18_State /\ [][C18_Step]_vars

\* A second snapshot was taken 2 seconds after the first, before the size was reached.
C18_Witness ==
    \E t \in Tasks :
        /\ pc[t] = "progress"
        /\ hist[t].snapshots = 2
        /\ info[t] # None
        /\ ToBig(downloaded[t]) # info[t]

(* C19: cancellation is observed at chunk boundaries: once the owner's      *)
(* cancel flag was set while the session is Streaming, no chunk is appended *)
(* any more (the buffer and the byte count do not grow), and when the       *)
(* stream delivers its next chunk or ends, the session becomes Cancelled.   *)
C19_Step ==
    \A t \in Tasks :
        hist[t].cancel_accepted =>
            /\ file_data'[t] <= file_data[t]
            /\ downloaded'[t] <= downloaded[t]
            /\ (pc[t] = "read" /\ pc'[t] # "read") =>
                  \/ pc'[t] = "cancel_msg" /\ outcome'[t] = "Cancelled"
                  \/ pc'[t] = "notify" /\ outcome'[t] = "Failed" /\ hist'[t].io_error

C19_CancelAtChunkBoundary == [][C19_Step]_vars

(* C20: when the probe fails the session goes from Probing directly to      *)
(* Failed: no streaming request is issued, no byte is buffered, the         *)
(* Uploader is not invoked, and the owner is released.                      *)
C20_State ==
    \A t \in Tasks :
        (pc[t] = "notify" /\ ~hist[t].probe_ok) =>
            /\ outcome[t] = "Failed"
            /\ ~hist[t].requested /\ ~hist[t].opened
            /\ file_data[t] = 0 /\ downloaded[t] = 0
            /\ ~hist[t].wrapped /\ hist[t].uploads = 0

C20_Step ==
    \A t \in Tasks :
        /\ (pc[t] \in Probing /\ pc'[t] \notin Probing /\ ~hist'[t].probe_ok) =>
              pc'[t] = "notify" /\ outcome'[t] = "Failed"
        /\ (pc[t] = "notify" /\ ~hist[t].probe_ok /\ pc'[t] # pc[t]) =>
              /\ pc'[t] = "done" /\ outcome'[t] = "Failed"
              /\ user_id[t] \notin active_downloads'
              /\ ~hist'[t].held /\ hist'[t].released = 1

C20_ProbeFailureFails == []C20_State /\ [][C20_Step]_vars

\* Both requests of the probe raised and the session is Failed.
C20_Witness ==
    \E t \in Tasks :
        /\ pc[t] = "notify" /\ outcome[t] = "Failed"
        /\ hist[t].admitted /\ ~hist[t].probe_ok
        /\ user_id[t] \in active_downloads

(* C21: the cleanup of a terminating session touches only that session's    *)
(* own admission: when a session of owner u returns, another session of u   *)
(* that is still in flight keeps its registry entry and the cancel flag     *)
(* that was requested for it.                                               *)
C21_Step ==
    \A t, s \in Tasks :
        ( /\ t # s
          /\ pc[t] = "notify" /\ pc'[t] = "done"
          /\ user_id[s] = user_id[t]
          /\ pc[s] \in NonTerminal ) =>
            /\ hist[s].held =>
                  hist'[s].held /\ user_id[s] \in active_downloads'
            /\ (hist[s].cancel_accepted /\ user_id[s] \in cancel_requests) =>
                  user_id[s] \in cancel_requests'

C21_CleanupOwnAdmissionOnly == [][C21_Step]_vars

(* C22: a cancel flag never outlives the session it was requested for: when *)
(* a session returns, the flag set by a cancel that was accepted during it  *)
(* is cleared, also when the session never observed it, so the flag cannot  *)
(* cancel a session the owner starts afterwards.                            *)
C22_State ==
    \A t \in Tasks :
        /\ hist[t].flag = "pending" =>
              pc[t] \in NonTerminal \cup {"cancel_msg", "notify"}
        /\ hist[t].flag = "cleared" => pc[t] = "done"

C22_Step ==
    \A t \in Tasks :
        (pc[t] # "done" /\ pc'[t] = "done" /\ hist[t].flag = "pending") =>
            /\ user_id[t] \notin cancel_requests'
            /\ hist'[t].flag = "cleared"

C22_FlagClearedAtTermination == []C22_State /\ [][C22_Step]_vars

\* A cancel accepted during the upload phase was never observed; the flag was
\* cleared when the session returned, and the owner's next session streams.
C22_Witness ==
    \E t, s \in Tasks :
        /\ pc[t] = "done" /\ hist[t].flag = "cleared"
        /\ outcome[t] = "Failed" /\ ~hist[t].held
        /\ user_id[s] = user_id[t]
        /\ pc[s] = "upload_msg" /\ hist[s].flag = "none"
        /\ user_id[t] \notin cancel_requests

====
